---- MODULE Spec2Model ----
(***************************************************************************)
(* Model of TP1 (src/TP1/src/main.rs, src/TP1/src/models.rs): a batch job  *)
(* that aggregates kill-event CSV files in parallel with rayon, merges the *)
(* per-file aggregates, ranks weapons and killers and writes a JSON file.  *)
(*                                                                         *)
(* Encodings                                                               *)
(*  - a String is the sequence of its bytes, so that String::cmp is the    *)
(*    lexicographic order StrLess;                                          *)
(*  - an Option is a sequence of length 0 (None) or 1 (Some(v));           *)
(*  - an f32 is the integer n standing for n * 2^-23.  Every f32 in        *)
(*    {0} \cup [1, 256) is such a multiple, sums of two of them are exact  *)
(*    integers below 2^31, and F32Round rounds them to 24 significant bits *)
(*    with ties to even, as IEEE-754 addition does;                        *)
(*  - a value that the code obtains by format!("{:.2}", x).parse::<f32>()  *)
(*    and only stores or prints afterwards is kept as its number of        *)
(*    hundredths (the two-decimal string and the f32 parsed from it        *)
(*    determine each other).                                               *)
(***************************************************************************)
EXTENDS Integers, Sequences, FiniteSets

VARIABLES
    pc,        \* position of main: which call of main() runs next
    status,    \* process exit status, None until the process has ended
    stderr,    \* number of messages written to the error stream
    argv,      \* the command line as get_arguments sees it
    dir,       \* the directory: the sequence of input files
    pool,      \* number of threads of the global rayon pool
    task,      \* per input file: the state of the map closure run on it
    segs,      \* results of the reduction: [lo, hi, agg] over adjacent files
    results,   \* Top10Results returned by process_files
    json,      \* OutputJson built by create_output_json, then its serialization
    outfile,   \* the output file on disk
    m,         \* operands and results of the merge closure applied on its own
    rk,        \* operands and results of the ranking functions applied on their own
    ra         \* operands and results of the per-record functions applied on their own

vars == <<pc, status, stderr, argv, dir, pool, task, segs, results, json, outfile, m, rk, ra>>

None == <<>>
Some(v) == <<v>>
IsSome(o) == Len(o) = 1
Unwrap(o) == o[1]

Min(a, b) == IF a < b THEN a ELSE b
Max(a, b) == IF a < b THEN b ELSE a

-----------------------------------------------------------------------------
(* Strings *)

Axe == <<65, 120, 101>>
Bat == <<66, 97, 116>>
Cub == <<67, 117, 98>>
Ann == <<65, 110, 110>>
Bob == <<66, 111, 98>>
bow == <<98, 111, 119>>

\* String::cmp: byte-wise lexicographic, a proper prefix is smaller.
StrLess(a, b) ==
    \E i \in 1..(Min(Len(a), Len(b)) + 1) :
        /\ \A j \in 1..(i - 1) : a[j] = b[j]
        /\ IF i > Len(a) \/ i > Len(b)
             THEN Len(a) < Len(b)
             ELSE a[i] < b[i]

-----------------------------------------------------------------------------
(* f32 arithmetic on the integers n standing for n * 2^-23 *)

F32One == 2 ^ 23

\* num / den rounded to the nearest integer, ties to the even one.
RoundHalfEven(num, den) ==
    LET q == num \div den
        r == num % den
    IN  IF 2 * r < den THEN q
        ELSE IF 2 * r > den THEN q + 1
        ELSE IF q % 2 = 0 THEN q ELSE q + 1

\* The exponent e >= 0 with n < 2^(24+e): the f32 ulp of n is 2^e units.
F32Exp(n) == CHOOSE e \in 0..7 : n < 2 ^ (24 + e) /\ (e = 0 \/ n >= 2 ^ (23 + e))

F32Round(n) == RoundHalfEven(n, 2 ^ F32Exp(n)) * (2 ^ F32Exp(n))

\* a + b in f32 (the += of accumulator_distance).
F32Add(a, b) == F32Round(a + b)

\* "{:.2}" text c/100 parsed as f32: the f32 nearest to c/100, for c = 0 or c >= 100.
F32FromCents(c) ==
    IF c = 0 THEN 0
    ELSE LET e == CHOOSE x \in 0..7 : 100 * (2 ^ x) <= c /\ c < 100 * (2 ^ (x + 1))
         IN  RoundHalfEven(c * (2 ^ (23 - e)), 100) * (2 ^ e)

\* format!("{:.2}", acc / k as f32): the f32 quotient (24 significant bits,
\* ties to even), then its two-decimal rendering (ties to even), in hundredths.
F32DivToCents(acc, k) ==
    IF acc = 0 THEN 0
    ELSE LET e == CHOOSE x \in -6..7 :
                      k * (2 ^ (23 + x)) <= acc /\ acc < k * (2 ^ (24 + x))
             man == RoundHalfEven(acc * (2 ^ Max(-e, 0)), k * (2 ^ Max(e, 0)))
         IN  RoundHalfEven(man * 100, 2 ^ (23 - e))

\* format!("{:.2}", (a / t) * 100.0) in hundredths.  For t < 64 the floating
\* point quotient is either exact or further from a rounding boundary than
\* its error, in f32 and in f64 alike.
PercentCents(a, t) == RoundHalfEven(a * 10000, t)

-----------------------------------------------------------------------------
(* CSV records *)

\* The text of a coordinate cell: the decimal text of a number, or other text.
NumText(n) == [kind |-> "num", val |-> n]
JunkText == [kind |-> "junk", val |-> 0]

\* str::parse::<f32>().ok()
ParseF32(text) == IF text.kind = "num" THEN Some(text.val) ELSE None

\* One item of rdr.records(): Err(e), or Ok(record) with nf fields of which
\* the columns 0, 1, 3, 4, 10 and 11 are kept.
ErrRecord == [err |-> TRUE, nf |-> 0, c0 |-> <<>>, c1 |-> <<>>,
              c3 |-> JunkText, c4 |-> JunkText, c10 |-> JunkText, c11 |-> JunkText]
Record(nf, w, k, kx, ky, vx, vy) ==
    [err |-> FALSE, nf |-> nf, c0 |-> w, c1 |-> k,
     c3 |-> kx, c4 |-> ky, c10 |-> vx, c11 |-> vy]

\* StringRecord::get(i)
RecordGet(record, i) ==
    IF i >= record.nf THEN None
    ELSE Some(CASE i = 0 -> record.c0
                [] i = 1 -> record.c1
                [] i = 3 -> record.c3
                [] i = 4 -> record.c4
                [] i = 10 -> record.c10
                [] i = 11 -> record.c11)

\* record.get(i).and_then(|s| s.parse::<f32>().ok())
GetCoordinate(record, i) ==
    IF IsSome(RecordGet(record, i)) THEN ParseF32(Unwrap(RecordGet(record, i))) ELSE None

-----------------------------------------------------------------------------
(* calculate_distance *)

\* format!("{:.2}", sqrt(s)) in hundredths, for an integer s: the c with
\* c - 1/2 <= 100 * sqrt(s) < c + 1/2 (the f32 root of a small integer is
\* never close enough to a boundary for its rounding to matter).
SqrtCents(s) ==
    CHOOSE c \in 0..(100 * (s + 1)) :
        /\ (c = 0 \/ (2 * c - 1) * (2 * c - 1) <= 40000 * s)
        /\ 40000 * s < (2 * c + 1) * (2 * c + 1)

\* A distance that takes an unknown coordinate for 0.
DistanceWithUnknownAsZero(kill_x_position, kill_y_position, victim_x_position, victim_y_position) ==
    LET at(o) == IF IsSome(o) THEN Unwrap(o) ELSE 0
        dx == at(kill_x_position) - at(victim_x_position)
        dy == at(kill_y_position) - at(victim_y_position)
    IN  F32FromCents(SqrtCents(dx * dx + dy * dy))

calculate_distance(kill_x_position, kill_y_position, victim_x_position, victim_y_position) ==
    IF /\ IsSome(kill_x_position) /\ IsSome(kill_y_position)
       /\ IsSome(victim_x_position) /\ IsSome(victim_y_position)
    THEN LET dx == Unwrap(kill_x_position) - Unwrap(victim_x_position)
             dy == Unwrap(kill_y_position) - Unwrap(victim_y_position)
         IN  F32FromCents(SqrtCents(dx * dx + dy * dy))
    ELSE 0

-----------------------------------------------------------------------------
(* process_weapon_record, process_killer_record *)

\* The record makes process_weapon_record call process::exit(1).
WeaponRecordExits(record) == ~IsSome(RecordGet(record, 0))

\* The record makes process_killer_record call process::exit(1).
KillerRecordExits(record) ==
    ~IsSome(RecordGet(record, 1)) \/ ~IsSome(RecordGet(record, 0))

RecordDistance(record) ==
    calculate_distance(GetCoordinate(record, 3), GetCoordinate(record, 4),
                       GetCoordinate(record, 10), GetCoordinate(record, 11))

process_weapon_record(record, weapons) ==
    LET weapon_name == Unwrap(RecordGet(record, 0))
    IN  IF weapon_name \in DOMAIN weapons
        THEN [weapons EXCEPT ![weapon_name] =
                 [name |-> @.name,
                  amount_deaths |-> @.amount_deaths + 1,
                  accumulator_distance |->
                      F32Add(@.accumulator_distance, RecordDistance(record))]]
        ELSE [k \in DOMAIN weapons \cup {weapon_name} |->
                 IF k = weapon_name
                 THEN [name |-> weapon_name,
                       amount_deaths |-> 1,
                       accumulator_distance |-> RecordDistance(record)]
                 ELSE weapons[k]]

\* HashMap<String, u32>: add n to the entry of key, inserting it when absent.
CountInto(counts, key, n) ==
    [k \in DOMAIN counts \cup {key} |->
        IF k = key
        THEN (IF k \in DOMAIN counts THEN counts[k] + n ELSE n)
        ELSE counts[k]]

process_killer_record(record, killers) ==
    LET killer_name == Unwrap(RecordGet(record, 1))
        weapon_name == Unwrap(RecordGet(record, 0))
    IN  IF killer_name \in DOMAIN killers
        THEN [killers EXCEPT ![killer_name] =
                 [name |-> @.name,
                  amount_deaths |-> @.amount_deaths + 1,
                  weapons |-> CountInto(@.weapons, weapon_name, 1)]]
        ELSE [k \in DOMAIN killers \cup {killer_name} |->
                 IF k = killer_name
                 THEN [name |-> killer_name,
                       amount_deaths |-> 1,
                       weapons |-> CountInto(<<>>, weapon_name, 1)]
                 ELSE killers[k]]

-----------------------------------------------------------------------------
(* The reduction of process_files *)

\* An initial value that counts one record.
ReduceIdentityCountingOne == [total_kills |-> 1, weapons |-> <<>>, killers |-> <<>>]

\* The identity closure: (0, HashMap::new(), HashMap::new()).
ReduceIdentity == [total_kills |-> 0, weapons |-> <<>>, killers |-> <<>>]

\* A merge that inserts the entries of weapons2 over those of weapons1.
MergeWeaponsByInsert(weapons1, weapons2) ==
    [key \in DOMAIN weapons1 \cup DOMAIN weapons2 |->
        IF key \in DOMAIN weapons2
        THEN [name |-> key,
              amount_deaths |-> weapons2[key].amount_deaths,
              accumulator_distance |-> weapons2[key].accumulator_distance]
        ELSE weapons1[key]]

\* for (key, value) in weapons2 { ... }: every key of weapons2 is visited once
\* and touches only its own entry of weapons1.
MergeWeapons(weapons1, weapons2) ==
    [key \in DOMAIN weapons1 \cup DOMAIN weapons2 |->
        IF key \in DOMAIN weapons2
        THEN IF key \in DOMAIN weapons1
             THEN [name |-> weapons1[key].name,
                   amount_deaths |->
                       weapons1[key].amount_deaths + weapons2[key].amount_deaths,
                   accumulator_distance |->
                       F32Add(weapons1[key].accumulator_distance,
                              weapons2[key].accumulator_distance)]
             ELSE [name |-> key,
                   amount_deaths |-> weapons2[key].amount_deaths,
                   accumulator_distance |-> weapons2[key].accumulator_distance]
        ELSE weapons1[key]]

\* A merge that inserts the entries of counts2 over those of counts1.
MergeCountsByInsert(counts1, counts2) ==
    [w \in DOMAIN counts1 \cup DOMAIN counts2 |->
        IF w \in DOMAIN counts2 THEN counts2[w] ELSE counts1[w]]

\* for (weapon_name, weapon_value) in killer_value.weapons { ... }
MergeCounts(counts1, counts2) ==
    [w \in DOMAIN counts1 \cup DOMAIN counts2 |->
        IF w \in DOMAIN counts2
        THEN IF w \in DOMAIN counts1 THEN counts1[w] + counts2[w] ELSE counts2[w]
        ELSE counts1[w]]

\* A merge that inserts the entries of killers2 over those of killers1.
MergeKillersByInsert(killers1, killers2) ==
    [killer_name \in DOMAIN killers1 \cup DOMAIN killers2 |->
        IF killer_name \in DOMAIN killers2
        THEN [name |-> killer_name,
              amount_deaths |-> killers2[killer_name].amount_deaths,
              weapons |-> killers2[killer_name].weapons]
        ELSE killers1[killer_name]]

MergeKillers(killers1, killers2) ==
    [killer_name \in DOMAIN killers1 \cup DOMAIN killers2 |->
        IF killer_name \in DOMAIN killers2
        THEN IF killer_name \in DOMAIN killers1
             THEN [name |-> killers1[killer_name].name,
                   amount_deaths |-> killers1[killer_name].amount_deaths
                                     + killers2[killer_name].amount_deaths,
                   weapons |-> MergeCounts(killers1[killer_name].weapons,
                                           killers2[killer_name].weapons)]
             ELSE [name |-> killer_name,
                   amount_deaths |-> killers2[killer_name].amount_deaths,
                   weapons |-> MergeCounts(<<>>, killers2[killer_name].weapons)]
        ELSE killers1[killer_name]]

\* The reduce closure.
Merge(a, b) ==
    [total_kills |-> a.total_kills + b.total_kills,
     weapons |-> MergeWeapons(a.weapons, b.weapons),
     killers |-> MergeKillers(a.killers, b.killers)]

-----------------------------------------------------------------------------
(* Iteration over a HashMap: the order is any order of its keys *)

\* Keys permuted freely up to this many; beyond it a family of orders is taken.
MaxPermuted == 3

KeyOrders(S) ==
    {p \in [1..Cardinality(S) -> S] : \A x \in S : \E i \in DOMAIN p : p[i] = x}

\* The keys in ascending String order.
Ascending(S) ==
    [i \in 1..Cardinality(S) |->
        CHOOSE x \in S : Cardinality({y \in S : StrLess(y, x)}) = i - 1]

Rotate(p, k) == [i \in DOMAIN p |-> p[((i + k - 1) % Len(p)) + 1]]
Reverse(p) == [i \in DOMAIN p |-> p[Len(p) + 1 - i]]

IterationOrders(S) ==
    IF Cardinality(S) <= MaxPermuted
    THEN KeyOrders(S)
    ELSE {Rotate(Ascending(S), k) : k \in 0..MaxPermuted}
         \cup {Rotate(Reverse(Ascending(S)), k) : k \in 0..MaxPermuted}

-----------------------------------------------------------------------------
(* Iterator::take *)

\* iter().take(n).collect()
Take(v, n) == SubSeq(v, 1, Min(n, Len(v)))

-----------------------------------------------------------------------------
(* The comparators of calculate_top_weapons and calculate_top_killers *)

\* A comparison by amount_deaths alone.
WeaponBeforeByCount(a, b) == a.amount_deaths > b.amount_deaths

\* b.amount_deaths.cmp(&a.amount_deaths).then_with(|| a.name.cmp(&b.name))
WeaponBefore(a, b) ==
    \/ a.amount_deaths > b.amount_deaths
    \/ a.amount_deaths = b.amount_deaths /\ StrLess(a.name, b.name)

\* A comparison by amount alone.
PairBeforeByCount(a, b) == a[2] > b[2]

\* b.1.cmp(&a.1).then_with(|| a.0.cmp(&b.0)) on (name, amount) pairs
PairBefore(a, b) == a[2] > b[2] \/ (a[2] = b[2] /\ StrLess(a[1], b[1]))

\* b.deaths.cmp(&a.deaths).then_with(|| a.name.cmp(&b.name))
KillerBefore(a, b) == a.deaths > b.deaths \/ (a.deaths = b.deaths /\ StrLess(a.name, b.name))

-----------------------------------------------------------------------------
(* slice::sort_by *)

\* The closure passed to sort_by says Less: a goes before b.
Before(by, a, b) ==
    CASE by = "weapon" -> WeaponBefore(a, b)
      [] by = "pair" -> PairBefore(a, b)
      [] by = "killer" -> KillerBefore(a, b)

\* The sorted vector with x inserted behind every element that is not after it.
InsertStable(sorted, x, by) ==
    LET n == Cardinality({i \in DOMAIN sorted : ~Before(by, x, sorted[i])})
    IN  SubSeq(sorted, 1, n) \o <<x>> \o SubSeq(sorted, n + 1, Len(sorted))

\* sort_by(compare): a stable sort (an insertion sort on short slices).
SortBy(v, by) ==
    LET sorted[n \in 0..Len(v)] ==
            IF n = 0 THEN <<>> ELSE InsertStable(sorted[n - 1], v[n], by)
    IN  sorted[Len(v)]

-----------------------------------------------------------------------------
(* calculate_top_weapons *)

TopWeaponsLen == 10

\* A Weapon whose average distance is taken over the kills of all weapons.
WeaponOfAveragedOverTotal(value, total_kills) ==
    [name |-> value.name,
     amount_deaths |-> value.amount_deaths,
     deaths_percentage |-> PercentCents(value.amount_deaths, total_kills),
     average_distance |-> F32DivToCents(value.accumulator_distance, total_kills)]

\* The Weapon built from one entry of the map.
WeaponOf(value, total_kills) ==
    [name |-> value.name,
     amount_deaths |-> value.amount_deaths,
     deaths_percentage |-> PercentCents(value.amount_deaths, total_kills),
     average_distance |-> F32DivToCents(value.accumulator_distance, value.amount_deaths)]

\* order: the order in which weapons.iter() visits the keys.
calculate_top_weapons(weapons, total_kills, order) ==
    LET top_weapons == [i \in DOMAIN order |-> WeaponOf(weapons[order[i]], total_kills)]
    IN  Take(SortBy(top_weapons, "weapon"), TopWeaponsLen)

-----------------------------------------------------------------------------
(* calculate_top_killers *)

TopKillersLen == 10
TopKillerWeaponsLen == 3

\* The Killer built from one entry of the map; worder: the order in which
\* value.weapons.iter() visits the keys.
KillerOf(value, worder) ==
    LET pairs == [i \in DOMAIN worder |-> <<worder[i], value.weapons[worder[i]]>>]
        top_weapons_sorted == Take(SortBy(pairs, "pair"), TopKillerWeaponsLen)
    IN  [name |-> value.name,
         deaths |-> value.amount_deaths,
         weapons |-> [i \in DOMAIN top_weapons_sorted |->
                         <<top_weapons_sorted[i][1],
                           PercentCents(top_weapons_sorted[i][2], value.amount_deaths)>>]]

\* order: the order in which killers.iter() visits the keys; worders[k]: the
\* order in which the weapons of killer k are visited.
calculate_top_killers(killers, order, worders) ==
    LET top_killers == [i \in DOMAIN order |-> KillerOf(killers[order[i]], worders[order[i]])]
    IN  Take(SortBy(top_killers, "killer"), TopKillersLen)

\* The iteration orders of the weapon maps of all killers: one order per
\* killer, chosen freely for up to two killers and from a family beyond.
WeaponOrders(killers) ==
    IF Cardinality(DOMAIN killers) <= 2
    THEN {f \in [DOMAIN killers ->
                    UNION {IterationOrders(DOMAIN killers[k].weapons) : k \in DOMAIN killers}] :
             \A k \in DOMAIN killers : f[k] \in IterationOrders(DOMAIN killers[k].weapons)}
    ELSE {[k \in DOMAIN killers |-> Rotate(Ascending(DOMAIN killers[k].weapons), r)] :
             r \in 0..MaxPermuted}
         \cup {[k \in DOMAIN killers |-> Rotate(Reverse(Ascending(DOMAIN killers[k].weapons)), r)] :
                  r \in 0..MaxPermuted}

-----------------------------------------------------------------------------
(* create_output_json and serde_json::to_string_pretty *)

Padron == 94455

\* The maps of OutputJson are HashMaps: functions of the names.
create_output_json(top_weapons, top_killers) ==
    [padron |-> Padron,
     top_killers |->
        [n \in {top_killers[i].name : i \in DOMAIN top_killers} |->
            LET killer == top_killers[CHOOSE i \in DOMAIN top_killers : top_killers[i].name = n]
            IN  [deaths |-> killer.deaths,
                 weapons_percentage |->
                    [w \in {killer.weapons[j][1] : j \in DOMAIN killer.weapons} |->
                        killer.weapons[CHOOSE j \in DOMAIN killer.weapons :
                                          killer.weapons[j][1] = w][2]]]],
     top_weapons |->
        [n \in {top_weapons[i].name : i \in DOMAIN top_weapons} |->
            LET weapon == top_weapons[CHOOSE i \in DOMAIN top_weapons : top_weapons[i].name = n]
            IN  [deaths_percentage |-> weapon.deaths_percentage,
                 average_distance |-> weapon.average_distance]]]

\* The text of a map: its entries in the order the serializer visits them.
Entries(map, order) == [i \in DOMAIN order |-> <<order[i], map[order[i]]>>]

\* The JSON documents to_string_pretty can produce for output_json: the fields
\* in declaration order, every map in an iteration order of its own.
Serializations(output_json) ==
    {[padron |-> output_json.padron,
      top_killers |->
          [i \in DOMAIN ko |->
              <<ko[i], [deaths |-> output_json.top_killers[ko[i]].deaths,
                        weapons_percentage |->
                            Entries(output_json.top_killers[ko[i]].weapons_percentage,
                                    po[ko[i]])]>>],
      top_weapons |-> Entries(output_json.top_weapons, wo)] :
        ko \in IterationOrders(DOMAIN output_json.top_killers),
        wo \in IterationOrders(DOMAIN output_json.top_weapons),
        po \in WeaponOrders([k \in DOMAIN output_json.top_killers |->
                                [weapons |-> output_json.top_killers[k].weapons_percentage]])}

-----------------------------------------------------------------------------
(* Inputs: the input files *)

Header == Record(12, <<107>>, <<107>>, JunkText, JunkText, JunkText, JunkText)

\* An input file: whether File::open succeeds, and its records, header first.
InputFile(openable, lines) == [openable |-> openable, lines |-> lines]

RowAxeAnn100 == Record(12, Axe, Ann, NumText(0), NumText(0), NumText(1), NumText(0))
RowAxeBob141 == Record(12, Axe, Bob, NumText(0), NumText(0), NumText(1), NumText(1))
RowBatAnnNoPos == Record(12, Bat, Ann, NumText(2), JunkText, NumText(1), NumText(1))
RowShort == Record(1, Axe, <<>>, JunkText, JunkText, JunkText, JunkText)

FileCatalogue ==
    << InputFile(TRUE, <<Header, RowAxeAnn100>>),
       InputFile(TRUE, <<Header, RowAxeBob141, RowBatAnnNoPos>>),
       InputFile(TRUE, <<Header>>),
       InputFile(FALSE, <<>>),
       InputFile(TRUE, <<Header, RowAxeAnn100, ErrRecord>>),
       InputFile(TRUE, <<Record(1, <<107>>, <<>>, JunkText, JunkText, JunkText, JunkText),
                         RowShort>>) >>

MaxFiles == 3
MaxThreads == 2
\* The number of threads rayon takes when num_threads is 0.
DefaultThreads == 1

Directories ==
    UNION {[1..n -> {FileCatalogue[i] : i \in DOMAIN FileCatalogue}] : n \in 0..MaxFiles}

\* args.len() == 4 or not; args[2] as parsed by parse::<usize>().
Arguments ==
    {[arity_ok |-> FALSE, num_threads |-> None],
     [arity_ok |-> TRUE, num_threads |-> None]}
    \cup {[arity_ok |-> TRUE, num_threads |-> Some(n)] : n \in 0..MaxThreads}

-----------------------------------------------------------------------------
(* The process *)

Running == status = None

\* eprintln!(..); std::process::exit(code), and main returning Err or panicking.
ExitWithMessage(code) ==
    /\ stderr' = stderr + 1
    /\ status' = Some(code)
    /\ pc' = "exited"

NewTask == [st |-> "pending", pos |-> 0, reads |-> 0, total_kills |-> 0,
            weapons |-> <<>>, killers |-> <<>>]

MergeScratch == [a |-> ReduceIdentity, b |-> ReduceIdentity, c |-> ReduceIdentity,
                 applied |-> FALSE, ab |-> ReduceIdentity, ba |-> ReduceIdentity,
                 ab_c |-> ReduceIdentity, a_bc |-> ReduceIdentity,
                 ia |-> ReduceIdentity, ai |-> ReduceIdentity, iai |-> ReduceIdentity,
                 none |-> ReduceIdentity, top_of_none |-> [weapons |-> <<>>, killers |-> <<>>]]

RankScratch == [weapons |-> <<>>, killers |-> <<>>, total_kills |-> 0,
                applied |-> FALSE, top_weapons |-> <<>>, top_killers |-> <<>>]

RowScratch == [record |-> Header, weapons |-> <<>>, killers |-> <<>>,
               applied |-> FALSE, exited |-> FALSE,
               weapons_after |-> <<>>, killers_after |-> <<>>]

Init ==
    /\ pc = "args"
    /\ status = None
    /\ stderr = 0
    /\ argv \in Arguments
    /\ dir \in Directories
    /\ pool = 0
    /\ task = <<>>
    /\ segs = {}
    /\ results = None
    /\ json = None
    /\ outfile = [state |-> "untouched", text |-> None]
    /\ m = MergeScratch
    /\ rk = RankScratch
    /\ ra = RowScratch

\* get_arguments
GetArguments ==
    /\ Running /\ pc = "args"
    /\ IF ~argv.arity_ok \/ ~IsSome(argv.num_threads)
       THEN ExitWithMessage(1)
       ELSE pc' = "pool" /\ UNCHANGED <<status, stderr>>
    /\ UNCHANGED <<argv, dir, pool, task, segs, results, json, outfile, m, rk, ra>>

\* A pool of exactly the number of threads asked for.
NumThreadsAsGiven(amount_workers) == amount_workers

\* ThreadPoolBuilder::new().num_threads(amount_workers).build_global()
NumThreads(amount_workers) == IF amount_workers = 0 THEN DefaultThreads ELSE amount_workers

BuildPool ==
    /\ Running /\ pc = "pool"
    /\ \/ /\ pool' = NumThreads(Unwrap(argv.num_threads))
          /\ pc' = "list"
          /\ UNCHANGED <<status, stderr>>
       \/ /\ ExitWithMessage(1)
          /\ UNCHANGED pool
    /\ UNCHANGED <<argv, dir, task, segs, results, json, outfile, m, rk, ra>>

\* get_files_in_directory(&file_path)?
ListFiles ==
    /\ Running /\ pc = "list"
    /\ \/ /\ task' = [i \in DOMAIN dir |-> NewTask]
          /\ pc' = "map"
          /\ UNCHANGED <<status, stderr>>
       \/ /\ ExitWithMessage(1)
          /\ UNCHANGED task
    /\ UNCHANGED <<argv, dir, pool, segs, results, json, outfile, m, rk, ra>>

-----------------------------------------------------------------------------
(* process_files: the map closure, run on file i by a thread of the pool *)

\* The files whose closure is running on a thread of the pool.
Busy == {i \in DOMAIN task : task[i].st \in {"open", "rows", "reported"}}

\* eprintln!(..) of the closure run on file i: its next statement is
\* std::process::exit(1); the other threads of the pool go on until then.
ReportFromWorker(i) ==
    /\ stderr' = stderr + 1
    /\ task' = [task EXCEPT ![i].st = "reported"]
    /\ UNCHANGED <<pc, status, segs>>

\* A failure that is left for the end of the reduction.
FailAndContinue(i) ==
    /\ task' = [task EXCEPT ![i].st = "failed"]
    /\ UNCHANGED <<pc, status, stderr, segs>>

\* std::process::exit(1) called by the closure run on file i: the process
\* ends there, whatever the other threads are doing.
ExitFromWorker(i) ==
    /\ status' = Some(1)
    /\ pc' = "exited"
    /\ task' = [task EXCEPT ![i].st = "failed"]
    /\ UNCHANGED <<stderr, segs>>

\* The closure run on file i goes from its eprintln! to process::exit(1).
TaskExit(i) ==
    /\ Running /\ pc = "map"
    /\ task[i].st = "reported"
    /\ ExitFromWorker(i)
    /\ UNCHANGED <<argv, dir, pool, results, json, outfile, m, rk, ra>>

\* File::open(file_path)
TaskOpen(i) ==
    /\ Running /\ pc = "map"
    /\ task[i].st = "pending"
    /\ Cardinality(Busy) < pool
    /\ IF dir[i].openable
       THEN /\ task' = [task EXCEPT ![i].st = "open"]
            /\ UNCHANGED <<pc, status, stderr, segs>>
       ELSE ReportFromWorker(i)
    /\ UNCHANGED <<argv, dir, pool, results, json, outfile, m, rk, ra>>

\* A count that takes the header for a record.
CountRecordsWithHeader(lines) == Len(lines)

\* rdr.records().count() of a reader with headers: every item after the
\* first record, Ok or Err.
CountRecords(lines) == Max(Len(lines) - 1, 0)

\* The count, rdr.seek(Position::new()) and rdr.records().next(): the second
\* pass starts behind the first record.
TaskCount(i) ==
    /\ Running /\ pc = "map"
    /\ task[i].st = "open"
    /\ task' = [task EXCEPT ![i].st = "rows",
                            ![i].total_kills = CountRecords(dir[i].lines),
                            ![i].pos = 2,
                            ![i].reads = 2]
    /\ UNCHANGED <<pc, status, stderr, argv, dir, pool, segs, results, json, outfile, m, rk, ra>>

\* One turn of `for result in rdr.records()`.
TaskRecord(i) ==
    /\ Running /\ pc = "map"
    /\ task[i].st = "rows"
    /\ task[i].pos <= Len(dir[i].lines)
    /\ LET record == dir[i].lines[task[i].pos]
       IN  IF record.err \/ WeaponRecordExits(record) \/ KillerRecordExits(record)
           THEN ReportFromWorker(i)
           ELSE /\ task' = [task EXCEPT
                               ![i].weapons = process_weapon_record(record, @),
                               ![i].killers = process_killer_record(record, @),
                               ![i].pos = @ + 1]
                /\ UNCHANGED <<pc, status, stderr, segs>>
    /\ UNCHANGED <<argv, dir, pool, results, json, outfile, m, rk, ra>>

\* (total_kills, weapons, killers) as the closure returns it.
PartialOf(t) == [total_kills |-> t.total_kills, weapons |-> t.weapons, killers |-> t.killers]

\* The closure returns and the reduction consumes its value: folded into the
\* result of the files just before it, or into a fresh identity.
TaskFinish(i) ==
    /\ Running /\ pc = "map"
    /\ task[i].st = "rows"
    /\ task[i].pos > Len(dir[i].lines)
    /\ task' = [task EXCEPT ![i] = [NewTask EXCEPT !.st = "done", !.reads = task[i].reads]]
    /\ \/ segs' = segs \cup {[lo |-> i, hi |-> i,
                              agg |-> Merge(ReduceIdentity, PartialOf(task[i]))]}
       \/ \E l \in segs :
            /\ l.hi + 1 = i
            /\ segs' = (segs \ {l}) \cup {[lo |-> l.lo, hi |-> i,
                                           agg |-> Merge(l.agg, PartialOf(task[i]))]}
    /\ UNCHANGED <<pc, status, stderr, argv, dir, pool, results, json, outfile, m, rk, ra>>

\* The reduce closure applied to the results of two adjacent runs of files.
MergeSegs ==
    /\ Running /\ pc = "map"
    /\ \E l \in segs, r \in segs :
         /\ l.hi + 1 = r.lo
         /\ segs' = (segs \ {l, r}) \cup {[lo |-> l.lo, hi |-> r.hi,
                                           agg |-> Merge(l.agg, r.agg)]}
    /\ UNCHANGED <<pc, status, stderr, argv, dir, pool, task, results, json, outfile, m, rk, ra>>

\* A reduction that returns with the first result at hand.
ReducedWithoutJoin == Len(dir) = 0 \/ segs # {}

\* The reduction has returned: one result covers every file.
Reduced ==
    /\ \A i \in DOMAIN task : task[i].st = "done"
    /\ \/ Len(dir) = 0 /\ segs = {}
       \/ \E g \in segs : segs = {g} /\ g.lo = 1 /\ g.hi = Len(dir)

\* What .reduce(..) returns.
Global == IF segs = {} THEN ReduceIdentity ELSE (CHOOSE g \in segs : TRUE).agg

\* calculate_top_weapons(..)?, calculate_top_killers(..)? and Ok(Top10Results {..})
Rank ==
    /\ Running /\ pc = "map"
    /\ Reduced
    /\ \E wo \in IterationOrders(DOMAIN Global.weapons),
          ko \in IterationOrders(DOMAIN Global.killers),
          po \in WeaponOrders(Global.killers) :
         results' = Some([weapons |-> calculate_top_weapons(Global.weapons,
                                                            Global.total_kills, wo),
                          killers |-> calculate_top_killers(Global.killers, ko, po)])
    /\ pc' = "ranked"
    /\ UNCHANGED <<status, stderr, argv, dir, pool, task, segs, json, outfile, m, rk, ra>>

-----------------------------------------------------------------------------
(* main: create_output_json, write_json_to_file and the return *)

CreateOutputJson ==
    /\ Running /\ pc = "ranked"
    /\ json' = [output_json |-> create_output_json(Unwrap(results).weapons,
                                                   Unwrap(results).killers),
                text |-> None]
    /\ pc' = "json"
    /\ UNCHANGED <<status, stderr, argv, dir, pool, task, segs, results, outfile, m, rk, ra>>

\* serde_json::to_string_pretty(&output_json).expect(..): these types always serialize.
Serialize ==
    /\ Running /\ pc = "json"
    /\ \E text \in Serializations(json.output_json) :
         json' = [json EXCEPT !.text = Some(text)]
    /\ pc' = "create"
    /\ UNCHANGED <<status, stderr, argv, dir, pool, task, segs, results, outfile, m, rk, ra>>

\* File::create(output_json_name)?: creates or truncates the file, or fails;
\* main reports a failure with eprintln! and goes on.
FileCreate ==
    /\ Running /\ pc = "create"
    /\ \/ /\ outfile' = [state |-> "empty", text |-> None]
          /\ pc' = "write"
          /\ UNCHANGED stderr
       \/ /\ stderr' = stderr + 1
          /\ pc' = "return"
          /\ UNCHANGED outfile
    /\ UNCHANGED <<status, argv, dir, pool, task, segs, results, json, m, rk, ra>>

\* file.write_all(json.as_bytes())?: writes everything, or fails having
\* written nothing or a proper part of it.
WriteAll ==
    /\ Running /\ pc = "write"
    /\ \/ /\ outfile' = [state |-> "complete", text |-> json.text]
          /\ UNCHANGED stderr
       \/ /\ \E st \in {"empty", "partial"} : outfile' = [state |-> st, text |-> None]
          /\ stderr' = stderr + 1
    /\ pc' = "return"
    /\ UNCHANGED <<status, argv, dir, pool, task, segs, results, json, m, rk, ra>>

\* println!("{:?}", start.elapsed()); Ok(())
Return ==
    /\ Running /\ pc = "return"
    /\ status' = Some(0)
    /\ pc' = "done"
    /\ UNCHANGED <<stderr, argv, dir, pool, task, segs, results, json, outfile, m, rk, ra>>

Next ==
    \/ GetArguments
    \/ BuildPool
    \/ ListFiles
    \/ \E i \in DOMAIN task : TaskOpen(i)
    \/ \E i \in DOMAIN task : TaskCount(i)
    \/ \E i \in DOMAIN task : TaskRecord(i)
    \/ \E i \in DOMAIN task : TaskFinish(i)
    \/ \E i \in DOMAIN task : TaskExit(i)
    \/ MergeSegs
    \/ Rank
    \/ CreateOutputJson
    \/ Serialize
    \/ FileCreate
    \/ WriteAll
    \/ Return

Spec == Init /\ [][Next]_vars

\* The threads of the process (main and the threads of the pool) are scheduled
\* by the operating system: while some thread can take a step, a step is taken.
Fairness == WF_vars(Next)

\* The directories of the runs checked for termination: up to MaxLiveFiles
\* files that can be read, are empty, cannot be opened or hold a record that
\* cannot be read.
MaxLiveFiles == 3

LiveCatalogue ==
    {InputFile(TRUE, <<Header, RowBatAnnNoPos, RowBatAnnNoPos>>),
     InputFile(TRUE, <<>>),
     InputFile(FALSE, <<>>),
     InputFile(TRUE, <<Header, RowBatAnnNoPos, ErrRecord>>)}

LiveDirectories == UNION {[1..n -> LiveCatalogue] : n \in 0..MaxLiveFiles}

InitLive ==
    /\ pc = "args"
    /\ status = None
    /\ stderr = 0
    /\ argv \in Arguments
    /\ dir \in LiveDirectories
    /\ pool = 0
    /\ task = <<>>
    /\ segs = {}
    /\ results = None
    /\ json = None
    /\ outfile = [state |-> "untouched", text |-> None]
    /\ m = MergeScratch
    /\ rk = RankScratch
    /\ ra = RowScratch

SpecLive == InitLive /\ [][Next]_vars /\ Fairness

-----------------------------------------------------------------------------
(* The merge closure applied on its own *)

\* The value the map closure returns for a readable file with these lines.
AggregateOf(lines) ==
    LET fold[n \in 1..Max(Len(lines), 1)] ==
            IF n = 1 THEN [weapons |-> <<>>, killers |-> <<>>]
            ELSE LET before == fold[n - 1]
                 IN  [weapons |-> process_weapon_record(lines[n], before.weapons),
                      killers |-> process_killer_record(lines[n], before.killers)]
    IN  [total_kills |-> CountRecords(lines),
         weapons |-> fold[Max(Len(lines), 1)].weapons,
         killers |-> fold[Max(Len(lines), 1)].killers]

MaxRows == 2

RowChoices == {RowAxeAnn100, RowAxeBob141, RowBatAnnNoPos}

\* The aggregates of the files of up to MaxRows rows.
PartialAggregates ==
    {AggregateOf(<<Header>> \o rows) : rows \in UNION {[1..n -> RowChoices] : n \in 0..MaxRows}}

\* The main process does not run in the specifications of single functions.
Parked ==
    /\ pc = "parked"
    /\ status = None
    /\ stderr = 0
    /\ argv = [arity_ok |-> FALSE, num_threads |-> None]
    /\ dir = <<>>
    /\ pool = 0
    /\ task = <<>>
    /\ segs = {}
    /\ results = None
    /\ json = None
    /\ outfile = [state |-> "untouched", text |-> None]

InitMerge ==
    /\ Parked
    /\ \E a \in PartialAggregates, b \in PartialAggregates, c \in PartialAggregates :
         m = [MergeScratch EXCEPT !.a = a, !.b = b, !.c = c]
    /\ rk = RankScratch
    /\ ra = RowScratch

ApplyMerge ==
    /\ pc = "parked"
    /\ ~m.applied
    /\ m' = [m EXCEPT !.applied = TRUE,
                      !.ab = Merge(m.a, m.b),
                      !.ba = Merge(m.b, m.a),
                      !.ab_c = Merge(Merge(m.a, m.b), m.c),
                      !.a_bc = Merge(m.a, Merge(m.b, m.c)),
                      !.ia = Merge(ReduceIdentity, m.a),
                      !.ai = Merge(m.a, ReduceIdentity),
                      !.iai = Merge(Merge(ReduceIdentity, Merge(ReduceIdentity, m.a)),
                                    Merge(ReduceIdentity, ReduceIdentity)),
                      !.none = ReduceIdentity,
                      !.top_of_none =
                          [weapons |-> calculate_top_weapons(ReduceIdentity.weapons,
                                                             ReduceIdentity.total_kills, <<>>),
                           killers |-> calculate_top_killers(ReduceIdentity.killers,
                                                             <<>>, <<>>)]]
    /\ UNCHANGED <<pc, status, stderr, argv, dir, pool, task, segs, results, json, outfile, rk, ra>>

NextMerge == ApplyMerge

SpecMerge == InitMerge /\ [][NextMerge]_vars

-----------------------------------------------------------------------------
(* The ranking functions applied on their own *)

Names == << Axe, Bat, Cub, bow, Ann, Bob, <<65>>, <<66>>, <<97>>, <<65, 120>>, <<90>>,
            <<66, 97>> >>

MaxEvents == 24

\* The i-th row of a file that spreads its rows over nw weapons and nk killers.
SpreadRow(i, nw, nk) ==
    Record(12, Names[((3 * i + i \div 3) % nw) + 1], Names[((3 * i + i \div 5) % nk) + 1],
           NumText(i % 3), NumText(0), NumText(0), IF i % 4 = 0 THEN JunkText ELSE NumText(0))

SpreadAggregate(len, nw, nk) ==
    AggregateOf(<<Header>> \o [i \in 1..len |-> SpreadRow(i, nw, nk)])

\* The aggregates that are ranked: of files of few and of many names.
RankedAggregates ==
    {SpreadAggregate(len, nw, nk) :
        len \in {MaxEvents \div 4, MaxEvents}, nw \in 1..Len(Names), nk \in {1, 2, 3, Len(Names)}}

InitRank ==
    /\ Parked
    /\ m = MergeScratch
    /\ ra = RowScratch
    /\ \E g \in RankedAggregates :
         rk = [RankScratch EXCEPT !.weapons = g.weapons, !.killers = g.killers,
                                  !.total_kills = g.total_kills]

ApplyRank ==
    /\ pc = "parked"
    /\ ~rk.applied
    /\ \E wo \in IterationOrders(DOMAIN rk.weapons),
          ko \in IterationOrders(DOMAIN rk.killers),
          po \in WeaponOrders(rk.killers) :
         rk' = [rk EXCEPT !.applied = TRUE,
                          !.top_weapons = calculate_top_weapons(rk.weapons, rk.total_kills, wo),
                          !.top_killers = calculate_top_killers(rk.killers, ko, po)]
    /\ UNCHANGED <<pc, status, stderr, argv, dir, pool, task, segs, results, json, outfile, m, ra>>

NextRank == ApplyRank

SpecRank == InitRank /\ [][NextRank]_vars

-----------------------------------------------------------------------------
(* process_weapon_record and process_killer_record applied on their own *)

\* The cells of a coordinate column: text that is no number, or a number.
CoordinateCells == {JunkText, NumText(0), NumText(3), NumText(4)}

\* Records of 1, 2, 4, 11 and 12 fields: the columns from the field count on
\* are absent.
RowInputs ==
    {Record(nf, w, k, kx, ky, vx, vy) :
        nf \in {1, 2, 4, 11, 12}, w \in {Axe, Cub}, k \in {Ann, Cub},
        kx \in CoordinateCells, ky \in CoordinateCells,
        vx \in CoordinateCells, vy \in CoordinateCells}

InitRow ==
    /\ Parked
    /\ m = MergeScratch
    /\ rk = RankScratch
    /\ \E record \in RowInputs, g \in PartialAggregates :
         ra = [RowScratch EXCEPT !.record = record, !.weapons = g.weapons,
                                 !.killers = g.killers]

\* The body of `for result in rdr.records()` on an Ok record.
ApplyRow ==
    /\ pc = "parked"
    /\ ~ra.applied
    /\ IF WeaponRecordExits(ra.record) \/ KillerRecordExits(ra.record)
       THEN ra' = [ra EXCEPT !.applied = TRUE, !.exited = TRUE]
       ELSE ra' = [ra EXCEPT !.applied = TRUE,
                             !.weapons_after = process_weapon_record(ra.record, ra.weapons),
                             !.killers_after = process_killer_record(ra.record, ra.killers)]
    /\ UNCHANGED <<pc, status, stderr, argv, dir, pool, task, segs, results, json, outfile, m, rk>>

NextRow == ApplyRow

SpecRow == InitRow /\ [][NextRow]_vars

-----------------------------------------------------------------------------
(* The process run on the two files of the end-to-end scenario *)

Knife == <<75, 110, 105, 102, 101>>
Gun == <<71, 117, 110>>
Alice == <<65, 108, 105, 99, 101>>

RowKnifeAliceNoPos == Record(12, Knife, Alice, JunkText, JunkText, JunkText, JunkText)
RowGunAlice1000 == Record(12, Gun, Alice, NumText(0), NumText(0), NumText(6), NumText(8))

FileKnife == InputFile(TRUE, <<Header, RowKnifeAliceNoPos, RowKnifeAliceNoPos,
                              RowKnifeAliceNoPos>>)
FileGun == InputFile(TRUE, <<Header, RowGunAlice1000, RowGunAlice1000>>)

\* The two files in either listing order, and the listings in which one of
\* them cannot be opened.
ScenarioDirectories ==
    {<<FileKnife, FileGun>>, <<FileGun, FileKnife>>,
     <<FileKnife, InputFile(FALSE, <<>>)>>, <<InputFile(FALSE, <<>>), FileKnife>>,
     <<FileGun, InputFile(FALSE, <<>>)>>, <<InputFile(FALSE, <<>>), FileGun>>}

\* The scenario's directory with any number of threads from 1 on.
InitScenario ==
    /\ pc = "args"
    /\ status = None
    /\ stderr = 0
    /\ argv \in {[arity_ok |-> TRUE, num_threads |-> Some(n)] : n \in 1..MaxThreads}
    /\ dir \in ScenarioDirectories
    /\ pool = 0
    /\ task = <<>>
    /\ segs = {}
    /\ results = None
    /\ json = None
    /\ outfile = [state |-> "untouched", text |-> None]
    /\ m = MergeScratch
    /\ rk = RankScratch
    /\ ra = RowScratch

SpecScenario == InitScenario /\ [][Next]_vars

-----------------------------------------------------------------------------
(* What the input files hold, read off the files themselves *)

\* The data rows of the input: <<file, line>> for every line behind a header.
Events == UNION {{<<i, j>> : j \in 2..Len(dir[i].lines)} : i \in DOMAIN dir}
EventRecord(e) == dir[e[1]].lines[e[2]]
WeaponEvents(w) == {e \in Events : EventRecord(e).c0 = w}
KillerEvents(k) == {e \in Events : EventRecord(e).c1 = k}
KillerWeaponEvents(k, w) == {e \in KillerEvents(k) : EventRecord(e).c0 = w}

\* process_files has returned Ok.
ProcessFilesReturned == pc \in {"ranked", "json", "create", "write", "return", "done"}

\* The run with one thread that folds the files in listing order.
ReferenceAggregate ==
    LET fold[n \in 0..Len(dir)] ==
            IF n = 0 THEN ReduceIdentity
            ELSE Merge(fold[n - 1], AggregateOf(dir[n].lines))
    IN  fold[Len(dir)]

ReferenceResults ==
    [weapons |-> calculate_top_weapons(ReferenceAggregate.weapons,
                                       ReferenceAggregate.total_kills,
                                       Ascending(DOMAIN ReferenceAggregate.weapons)),
     killers |-> calculate_top_killers(ReferenceAggregate.killers,
                                       Ascending(DOMAIN ReferenceAggregate.killers),
                                       [k \in DOMAIN ReferenceAggregate.killers |->
                                           Ascending(DOMAIN ReferenceAggregate.killers[k].weapons)])]

SumAmounts(map) ==
    LET keys == Ascending(DOMAIN map)
        sum[n \in 0..Len(keys)] ==
            IF n = 0 THEN 0 ELSE sum[n - 1] + map[keys[n]].amount_deaths
    IN  sum[Len(keys)]

WorkerFailed == \E i \in DOMAIN task : task[i].st = "failed"

\* A closure has written its error message and not yet ended the process.
WorkerReported == \E i \in DOMAIN task : task[i].st = "reported"

-----------------------------------------------------------------------------
(* Properties *)

\* C1: the merge of the reduction is associative and commutative field by
\* field: merge(merge(a,b),c) = merge(a,merge(b,c)) and merge(a,b) = merge(b,a)
\* for all aggregates a, b, c (counts and distance sums alike).
MergeAssociativeCommutative ==
    m.applied => (m.ab_c = m.a_bc /\ m.ab = m.ba)

\* C2: for a fixed list of input files every successful run yields the same
\* GlobalAggregate and the same ranked results, whatever the thread count, the
\* order in which files are processed and the grouping of the merges: the ones
\* of the single-threaded run in listing order.
RunsAgree ==
    ProcessFilesReturned =>
        /\ Global = ReferenceAggregate
        /\ Unwrap(results) = ReferenceResults

\* C3: in a successful run every file contributes exactly once: total_kills is
\* the number of data rows of all files (headers excluded), and the count of
\* every weapon, killer and killer's weapon is the number of rows that name it.
EveryFileCountedOnce ==
    ProcessFilesReturned =>
        /\ Global.total_kills = Cardinality(Events)
        /\ DOMAIN Global.weapons = {EventRecord(e).c0 : e \in Events}
        /\ \A w \in DOMAIN Global.weapons :
             Global.weapons[w].amount_deaths = Cardinality(WeaponEvents(w))
        /\ DOMAIN Global.killers = {EventRecord(e).c1 : e \in Events}
        /\ \A k \in DOMAIN Global.killers :
             /\ Global.killers[k].amount_deaths = Cardinality(KillerEvents(k))
             /\ DOMAIN Global.killers[k].weapons =
                    {EventRecord(e).c0 : e \in KillerEvents(k)}
             /\ \A w \in DOMAIN Global.killers[k].weapons :
                  Global.killers[k].weapons[w] = Cardinality(KillerWeaponEvents(k, w))

\* C3 witness: a finished reduction over three files, one without data rows,
\* with a weapon and a killer that occur in more than one file.
EveryFileCountedOnceWitness ==
    /\ ProcessFilesReturned
    /\ Len(dir) = 3
    /\ \E i \in DOMAIN dir : Len(dir[i].lines) = 1
    /\ \E w \in DOMAIN Global.weapons :
         \E e \in WeaponEvents(w), f \in WeaponEvents(w) : e[1] # f[1]
    /\ \E k \in DOMAIN Global.killers :
         \E e \in KillerEvents(k), f \in KillerEvents(k) : e[1] # f[1]

\* C4: in a successful run with total_kills > 0 the kill counts of the weapons
\* sum to total_kills, and every ranked weapon's deaths_percentage is within
\* 0.00 and 100.00.
PercentageBounds ==
    (ProcessFilesReturned /\ Global.total_kills > 0) =>
        /\ SumAmounts(Global.weapons) = Global.total_kills
        /\ \A i \in DOMAIN Unwrap(results).weapons :
             /\ Unwrap(results).weapons[i].deaths_percentage >= 0
             /\ Unwrap(results).weapons[i].deaths_percentage <= 10000

\* C4 witness: a ranked result over two weapons and several files.
PercentageBoundsWitness ==
    /\ ProcessFilesReturned
    /\ Global.total_kills > 2
    /\ Len(dir) > 1
    /\ Len(Unwrap(results).weapons) = 2

\* C5: once a worker has failed the run is over at that very step: exit
\* status 1, nothing ranked, no report built and the output file untouched;
\* between its message and its exit nothing is ranked or written either.
WorkerFailureAborts ==
    /\ WorkerFailed =>
          /\ status = Some(1)
          /\ pc = "exited"
          /\ results = None
          /\ json = None
          /\ outfile.state = "untouched"
    /\ WorkerReported =>
          /\ pc \in {"map", "exited"}
          /\ results = None
          /\ json = None
          /\ outfile.state = "untouched"

\* C5 witness: a worker has failed while another one is in the middle of its
\* file and a third has already delivered its result.
WorkerFailureAbortsWitness ==
    /\ WorkerFailed
    /\ Busy # {}
    /\ segs # {}

\* C6: a run that ends in a fatal error ends with a message on the error
\* stream, a nonzero exit status and no output file; exit status 0 means the
\* complete report was written.
FatalErrorsExitNonzero ==
    status # None =>
        /\ stderr > 0 => (status # Some(0) /\ outfile.state = "untouched")
        /\ status # Some(0) => stderr > 0
        /\ status = Some(0) => outfile.state = "complete"

\* C7: the output file is written fully or not at all: when the run has ended
\* the file is untouched or holds the complete serialized report.
WrittenFullyOrNotAtAll ==
    status # None =>
        \/ outfile.state = "untouched"
        \/ outfile.state = "complete" /\ outfile.text = json.text

\* C10: the entries of top_weapons, of top_killers and of every killer's
\* weapons_percentage reach the writer in ranked order.
OutputInRankedOrder ==
    pc \in {"create", "write", "return", "done"} =>
        LET text == Unwrap(json.text)
            ranked == Unwrap(results)
        IN  /\ [i \in DOMAIN text.top_weapons |-> text.top_weapons[i][1]]
                 = [i \in DOMAIN ranked.weapons |-> ranked.weapons[i].name]
            /\ [i \in DOMAIN text.top_killers |-> text.top_killers[i][1]]
                 = [i \in DOMAIN ranked.killers |-> ranked.killers[i].name]
            /\ \A i \in DOMAIN text.top_killers :
                 text.top_killers[i][2].weapons_percentage
                     = ranked.killers[i].weapons

\* Rank order: more kills first, equal kills by ascending name.
RanksBefore(name1, count1, name2, count2) ==
    count1 > count2 \/ (count1 = count2 /\ StrLess(name1, name2))

\* C8: calculate_top_weapons returns the first min(10, n) of the n weapons in
\* the order of kill count descending, ties by name ascending, whatever the
\* iteration order of the map; fewer than 10 weapons give a shorter list.
TopWeaponsRanked ==
    rk.applied =>
        LET top == rk.top_weapons
            in == {top[i].name : i \in DOMAIN top}
        IN  /\ Len(top) = Min(10, Cardinality(DOMAIN rk.weapons))
            /\ \A i \in DOMAIN top :
                 /\ top[i].name \in DOMAIN rk.weapons
                 /\ top[i].amount_deaths = rk.weapons[top[i].name].amount_deaths
            /\ \A i \in DOMAIN top, j \in DOMAIN top :
                 i < j => RanksBefore(top[i].name, top[i].amount_deaths,
                                      top[j].name, top[j].amount_deaths)
            /\ \A w \in DOMAIN rk.weapons \ in : \A i \in DOMAIN top :
                 RanksBefore(top[i].name, top[i].amount_deaths,
                             w, rk.weapons[w].amount_deaths)

\* C8 witness: more than ten weapons were ranked, and Axe and Bat are listed
\* next to each other with equal kill counts.
TopWeaponsRankedWitness ==
    /\ rk.applied
    /\ Cardinality(DOMAIN rk.weapons) > 10
    /\ \E i \in DOMAIN rk.top_weapons :
         /\ i + 1 \in DOMAIN rk.top_weapons
         /\ rk.top_weapons[i].name = Axe
         /\ rk.top_weapons[i + 1].name = Bat
         /\ rk.top_weapons[i].amount_deaths = rk.top_weapons[i + 1].amount_deaths

\* C9: calculate_top_killers returns the first min(10, n) killers by kill
\* count descending, ties by name ascending, each with the first min(3, m) of
\* its weapons by count descending, ties by name ascending, and with each
\* weapon's share count / kill_count * 100 to two decimals.
TopKillersRanked ==
    rk.applied =>
        LET top == rk.top_killers
            in == {top[i].name : i \in DOMAIN top}
        IN  /\ Len(top) = Min(10, Cardinality(DOMAIN rk.killers))
            /\ \A i \in DOMAIN top, j \in DOMAIN top :
                 i < j => RanksBefore(top[i].name, top[i].deaths, top[j].name, top[j].deaths)
            /\ \A k \in DOMAIN rk.killers \ in : \A i \in DOMAIN top :
                 RanksBefore(top[i].name, top[i].deaths, k, rk.killers[k].amount_deaths)
            /\ \A i \in DOMAIN top :
                 /\ top[i].name \in DOMAIN rk.killers
                 /\ LET killer == rk.killers[top[i].name]
                        used == top[i].weapons
                        kept == {used[j][1] : j \in DOMAIN used}
                    IN  /\ top[i].deaths = killer.amount_deaths
                        /\ Len(used) = Min(3, Cardinality(DOMAIN killer.weapons))
                        /\ kept \subseteq DOMAIN killer.weapons
                        /\ \A j \in DOMAIN used :
                             LET miss == used[j][2] * killer.amount_deaths
                                         - 10000 * killer.weapons[used[j][1]]
                             IN  2 * miss <= killer.amount_deaths
                                 /\ -2 * miss <= killer.amount_deaths
                        /\ \A j \in DOMAIN used, l \in DOMAIN used :
                             j < l => RanksBefore(used[j][1], killer.weapons[used[j][1]],
                                                  used[l][1], killer.weapons[used[l][1]])
                        /\ \A w \in DOMAIN killer.weapons \ kept : \A j \in DOMAIN used :
                             RanksBefore(used[j][1], killer.weapons[used[j][1]],
                                         w, killer.weapons[w])

\* C9 witness: more than ten killers were ranked, and of a listed killer with
\* more than three weapons, two with equal counts, three are kept.
TopKillersRankedWitness ==
    /\ rk.applied
    /\ Cardinality(DOMAIN rk.killers) > 10
    /\ \E i \in DOMAIN rk.top_killers :
         LET killer == rk.killers[rk.top_killers[i].name]
         IN  /\ Cardinality(DOMAIN killer.weapons) > 3
             /\ Len(rk.top_killers[i].weapons) = 3
             /\ \E v \in DOMAIN killer.weapons, w \in DOMAIN killer.weapons :
                  v # w /\ killer.weapons[v] = killer.weapons[w]

\* The cell of column i of the record holds a number.
CellKnown(record, i, cell) == i < record.nf /\ cell.kind = "num"

\* All four coordinate cells of the record hold numbers.
PositionsKnown(record) ==
    /\ CellKnown(record, 3, record.c3) /\ CellKnown(record, 4, record.c4)
    /\ CellKnown(record, 10, record.c10) /\ CellKnown(record, 11, record.c11)

\* d hundredths is sqrt((kx-vx)^2 + (ky-vy)^2) rounded to two decimals.
IsRoundedDistance(record, d) ==
    LET s == (record.c3.val - record.c10.val) * (record.c3.val - record.c10.val)
             + (record.c4.val - record.c11.val) * (record.c4.val - record.c11.val)
    IN  /\ d >= 0
        /\ (2 * d + 1) * (2 * d + 1) > 40000 * s
        /\ (d = 0 \/ (2 * d - 1) * (2 * d - 1) <= 40000 * s)

\* C11: a row with a weapon and a killer is always aggregated, without a
\* failure: the kill counts of its weapon and of its killer grow by 1; when a
\* coordinate is absent or is no number the weapon's distance sum stays as it
\* was (it starts at 0 for a new weapon); when all four are numbers the
\* distance rounded to two decimals is added, 5.00 for (0,0) and (3,4).
RowDistanceRule ==
    (ra.applied /\ ra.record.nf >= 2) =>
        LET r == ra.record
            had == r.c0 \in DOMAIN ra.weapons
            acc == IF had THEN ra.weapons[r.c0].accumulator_distance ELSE 0
            now == ra.weapons_after[r.c0]
        IN  /\ ~ra.exited
            /\ DOMAIN ra.weapons_after = DOMAIN ra.weapons \cup {r.c0}
            /\ DOMAIN ra.killers_after = DOMAIN ra.killers \cup {r.c1}
            /\ now.amount_deaths = (IF had THEN ra.weapons[r.c0].amount_deaths ELSE 0) + 1
            /\ ra.killers_after[r.c1].amount_deaths =
                   (IF r.c1 \in DOMAIN ra.killers
                    THEN ra.killers[r.c1].amount_deaths ELSE 0) + 1
            /\ IF PositionsKnown(r)
               THEN /\ \E d \in 0..600 :
                         /\ IsRoundedDistance(r, d)
                         /\ now.accumulator_distance = F32Add(acc, F32FromCents(d))
                    /\ (r.c3.val = 0 /\ r.c4.val = 0 /\ r.c10.val = 3 /\ r.c11.val = 4 /\ ~had)
                           => now.accumulator_distance = 5 * F32One
               ELSE now.accumulator_distance = acc

\* C11 witness: a row whose last coordinate column is absent, while the other
\* three are numbers of different points, was added to a weapon that already
\* had a distance sum above 0.
RowDistanceRuleWitness ==
    /\ ra.applied /\ ~ra.exited
    /\ ra.record.nf = 11
    /\ ra.record.c3.kind = "num" /\ ra.record.c4.kind = "num" /\ ra.record.c10.kind = "num"
    /\ ra.record.c3.val # ra.record.c10.val
    /\ ra.record.c0 \in DOMAIN ra.weapons
    /\ ra.weapons[ra.record.c0].accumulator_distance > 0
    /\ ra.weapons_after[ra.record.c0].amount_deaths > 1

\* C12: the two files of the scenario (three Knife rows of Alice without
\* coordinates, two Gun rows of Alice at distance 10.00), with any number of
\* threads and in any processing and merge order, give total 5, Knife with 3
\* kills, average 0.00 and 60.00 percent, Gun with 2 kills, average 10.00 and
\* 40.00 percent, and Alice with 5 kills and the weapons (Knife, 60.00),
\* (Gun, 40.00) in that order.
ScenarioResults ==
    ProcessFilesReturned =>
        /\ Global.total_kills = 5
        /\ DOMAIN Global.weapons = {Knife, Gun}
        /\ Global.weapons[Knife].amount_deaths = 3
        /\ Global.weapons[Gun].amount_deaths = 2
        /\ DOMAIN Global.killers = {Alice}
        /\ Global.killers[Alice].amount_deaths = 5
        /\ Unwrap(results).weapons =
               << [name |-> Knife, amount_deaths |-> 3,
                   deaths_percentage |-> 6000, average_distance |-> 0],
                  [name |-> Gun, amount_deaths |-> 2,
                   deaths_percentage |-> 4000, average_distance |-> 1000] >>
        /\ Unwrap(results).killers =
               << [name |-> Alice, deaths |-> 5,
                   weapons |-> << <<Knife, 6000>>, <<Gun, 4000>> >>] >>
        /\ json # None =>
               /\ json.output_json.top_weapons =
                      [w \in {Knife, Gun} |->
                          IF w = Knife
                          THEN [deaths_percentage |-> 6000, average_distance |-> 0]
                          ELSE [deaths_percentage |-> 4000, average_distance |-> 1000]]
               /\ json.output_json.top_killers[Alice].deaths = 5
               /\ json.output_json.top_killers[Alice].weapons_percentage =
                      [w \in {Knife, Gun} |-> IF w = Knife THEN 6000 ELSE 4000]

\* C12 witness: the run with two threads has ended with the report written,
\* the Gun file listed first and Knife ranked first.
ScenarioResultsWitness ==
    /\ pc = "done"
    /\ outfile.state = "complete"
    /\ pool = 2
    /\ dir = <<FileGun, FileKnife>>
    /\ Unwrap(results).weapons[1].name = Knife

\* C13: while files are being aggregated the pool has exactly the number of
\* threads given on the command line, and at most that many files are being
\* aggregated at once; every file is run by one closure call from its open to
\* its result.
WithinWorkerCount ==
    IsSome(argv.num_threads) =>
        /\ Busy # {} => pool = Unwrap(argv.num_threads)
        /\ Cardinality(Busy) <= Unwrap(argv.num_threads)
        /\ Len(task) \in {0, Len(dir)}

\* C14: when workers fail exactly one failure is surfaced: one message on the
\* error stream, however many workers have failed.
SingleFailureSurfaced ==
    (WorkerFailed \/ WorkerReported) => stderr = 1

\* C15: every input file is read once: no file is passed over more than one
\* time from its first record to its last.
FilesReadOnce ==
    \A i \in DOMAIN task : task[i].reads <= 1

\* The result of every input file has been merged into one aggregate.
EveryFileMerged ==
    /\ Len(task) = Len(dir)
    /\ \A i \in DOMAIN task : task[i].st = "done"
    /\ Cardinality(segs) <= 1
    /\ \A i \in DOMAIN dir : \E g \in segs : g.lo <= i /\ i <= g.hi

\* C16: ranking and the creation of the report start only when the result of
\* every input file has been merged; from then on the aggregate is not
\* modified; the report is created at most once and is not changed afterwards.
RankAfterReduceReportOnce ==
    /\ [](ProcessFilesReturned => EveryFileMerged)
    /\ [][/\ results' # results => (EveryFileMerged /\ results = None)
          /\ ProcessFilesReturned => (segs' = segs /\ task' = task /\ results' = results)
          /\ json' # json => (ProcessFilesReturned /\ results # None)
          /\ json # None => (json' # None /\ json'.output_json = json.output_json)]_vars

\* C16 witness: a report over three files, built from a merged aggregate with
\* kills, has been written.
RankAfterReduceReportOnceWitness ==
    /\ pc = "done"
    /\ outfile.state = "complete"
    /\ Len(dir) = 3
    /\ Global.total_kills > 2
    /\ json # None

\* The sum of the counts of a HashMap<String, u32>.
SumCounts(counts) ==
    LET sum[S \in SUBSET DOMAIN counts] ==
            IF S = {} THEN 0
            ELSE LET key == CHOOSE k \in S : TRUE
                 IN  counts[key] + sum[S \ {key}]
    IN  sum[DOMAIN counts]

\* The invariants of the entries of a weapon map and a killer map.
EntriesWellFormed(weapons, killers) ==
    /\ \A w \in DOMAIN weapons :
         /\ weapons[w].amount_deaths >= 1
         /\ weapons[w].accumulator_distance >= 0
    /\ \A k \in DOMAIN killers :
         /\ killers[k].amount_deaths >= 1
         /\ \A w \in DOMAIN killers[k].weapons : killers[k].weapons[w] >= 1
         /\ SumCounts(killers[k].weapons) = killers[k].amount_deaths

\* C17: in the maps of every file in progress and in every merged result each
\* weapon has at least 1 kill and a distance sum of at least 0, each killer has
\* at least 1 kill, each of its weapon counts is at least 1 and they sum to
\* the killer's kills: no division of the ranking is by zero.
AggregatesWellFormed ==
    /\ \A i \in DOMAIN task : EntriesWellFormed(task[i].weapons, task[i].killers)
    /\ \A g \in segs : EntriesWellFormed(g.agg.weapons, g.agg.killers)
    /\ ProcessFilesReturned =>
          (DOMAIN Global.weapons # {} => Global.total_kills >= 1)

\* C17 witness: a merged result of two files or more holds a killer with a
\* weapon used in more than one of the files, while another file is in
\* progress with rows aggregated.
AggregatesWellFormedWitness ==
    /\ pc = "map"
    /\ \E g \in segs :
         /\ g.hi > g.lo
         /\ \E k \in DOMAIN g.agg.killers :
              /\ \E w \in DOMAIN g.agg.killers[k].weapons :
                   \E e \in KillerWeaponEvents(k, w), f \in KillerWeaponEvents(k, w) :
                       e[1] # f[1] /\ e[1] \in g.lo..g.hi /\ f[1] \in g.lo..g.hi
    /\ \E i \in DOMAIN task : task[i].st = "rows" /\ DOMAIN task[i].weapons # {}

\* C18: under fair scheduling every run ends: the process exits, having
\* written the complete report or having reported a failure.
RunTerminates ==
    /\ <>(status # None)
    /\ [](status # None => (outfile.state = "complete" \/ stderr > 0))

\* C18 witness: a run over three files on two threads has ended with the
\* report written.
RunTerminatesWitness ==
    /\ status = Some(0)
    /\ outfile.state = "complete"
    /\ Len(dir) = 3
    /\ pool = 2
    /\ Global.total_kills > 0

\* C19: the value of the reduction's identity closure is a two-sided identity
\* of the merge: merging it in on the left, on the right or several times
\* leaves every aggregate as it is; the reduction of no file at all is that
\* value, with total 0 and no weapon or killer, and ranking it gives two empty
\* lists.
IdentityIsNeutral ==
    m.applied =>
        /\ m.ia = m.a
        /\ m.ai = m.a
        /\ m.iai = m.a
        /\ m.none = [total_kills |-> 0, weapons |-> <<>>, killers |-> <<>>]
        /\ m.top_of_none = [weapons |-> <<>>, killers |-> <<>>]

\* C19 witness: the identity was merged with an aggregate of two weapons and
\* two killers with a distance sum above 0.
IdentityIsNeutralWitness ==
    /\ m.applied
    /\ Cardinality(DOMAIN m.a.weapons) = 2
    /\ Cardinality(DOMAIN m.a.killers) = 2
    /\ \E w \in DOMAIN m.a.weapons : m.a.weapons[w].accumulator_distance > 0
    /\ DOMAIN m.ia.weapons = DOMAIN m.a.weapons

\* The number of kills with weapon w over all killers of the map.
SumWeaponUse(killers, w) ==
    SumCounts([k \in DOMAIN killers |->
                  IF w \in DOMAIN killers[k].weapons THEN killers[k].weapons[w] ELSE 0])

\* The weapon map and the killer map tell the same kills.
MapsConsistent(weapons, killers) ==
    /\ SumCounts([w \in DOMAIN weapons |-> weapons[w].amount_deaths])
           = SumCounts([k \in DOMAIN killers |-> killers[k].amount_deaths])
    /\ UNION {DOMAIN killers[k].weapons : k \in DOMAIN killers} = DOMAIN weapons
    /\ \A w \in DOMAIN weapons : SumWeaponUse(killers, w) = weapons[w].amount_deaths

====
